---- MODULE Spec2Model ----
(***************************************************************************)
(* Model of sigrokdecode/__init__.py: the Decoder base class (channel      *)
(* remapping, wait, callback registry, put) and the run_decoders pipeline  *)
(* orchestrator.                                                           *)
(*                                                                         *)
(* Python attribute lookup is modelled literally: an attribute read on an  *)
(* instance resolves to the instance's own attribute when it has one and   *)
(* to the attribute declared in the body of class Decoder otherwise.       *)
(*                                                                         *)
(* Three specifications: Spec is a run of run_decoders; SpecFacade calls   *)
(* the methods of Decoder instances directly; SpecMatch applies the        *)
(* function cond_matches.                                                  *)
(***************************************************************************)
EXTENDS Integers, Sequences, FiniteSets, Bags, TLC

(* ------------------------------ bounds --------------------------------- *)
\* longest decoder specification list given to run_decoders
MaxDecoders == 3
\* most put calls made by the decoders during one run
MaxPuts == 2
\* samples the stream source can yield before it must signal EndOfStream
MaxSamples == 1

(* --------------------------- identities -------------------------------- *)
\* the terminal sink (parameter `output` of run_decoders)
Sink == 0
\* the value None where a decoder instance is expected
NoDecoder == 0 - 1
\* the class object Decoder, holder of the attributes declared in its body
DecoderCls == 0 - 2
\* the value None where an output filter is expected
NoFilter == "None"
\* the stream source (parameter `input_` of run_decoders)
Source == 0 - 3

\* OutputType
OUTPUT_ANN == "ANN"
OUTPUT_PYTHON == "PYTHON"
OUTPUT_BINARY == "BINARY"
OUTPUT_LOGIC == "LOGIC"
OUTPUT_META == "META"
OutputType == {OUTPUT_ANN, OUTPUT_PYTHON, OUTPUT_BINARY, OUTPUT_LOGIC, OUTPUT_META}

\* attributes given a value in the body of class Decoder
ClassAttrs == {"decoder_channel_to_data_channel", "one_to_one", "input", "callbacks"}
\* class-level default of one_to_one
ClassOneToOne == FALSE

(* ----------------------- decoder definitions --------------------------- *)
(* Three third-party decoder classes.  "A" declares channels, an optional  *)
(* channel, annotation classes and annotation rows; "B" declares one       *)
(* channel and binary tracks and leaves optional_channels and annotations  *)
(* at the base class's None; "C" declares two channels and an empty tuple  *)
(* of optional channels.                                                   *)
DecoderClasses == {"A", "B", "C"}

\* attributes a decoder class sets to something other than None
Declares(cls) ==
    IF cls = "A" THEN {"channels", "optional_channels", "annotations", "annotation_rows"}
    ELSE IF cls = "B" THEN {"channels", "binary"}
    ELSE {"channels", "optional_channels"}

\* ids of the declared channels
channels(cls) ==
    IF cls = "A" THEN <<"a", "b">> ELSE IF cls = "B" THEN <<"x">> ELSE <<"p", "q">>

\* ids of the optional channels (read only where declared)
optional_channels(cls) == IF cls = "A" THEN <<"c">> ELSE <<>>

\* annotation classes: element [0] of each (id, description) pair
annotations(cls) == IF cls = "A" THEN <<"bit", "warnings">> ELSE <<>>

\* annotation rows: (row id, classes of the row)
annotation_rows(cls) ==
    IF cls = "A" THEN << [name |-> "data", classes |-> {0}],
                         [name |-> "warnings", classes |-> {1}] >>
    ELSE <<>>

\* binary tracks: element [0] of each (id, description) pair
binary(cls) == IF cls = "B" THEN <<"data", "hex">> ELSE <<>>

\* decoder_info entries the caller may pass: class and pin mapping
\* (pin name, physical channel), in the mapping's insertion order
DecoderInfos ==
    { [cls |-> "A", pin_mapping |-> << <<"a", 2>>, <<"c", 0>> >>],
      [cls |-> "B", pin_mapping |-> << <<"x", 0>> >>] }

\* filters the caller may configure
Filters == {NoFilter, "data", "warnings"}
\* output kinds the caller may configure as primary kind and decoders may put
Kinds == {OUTPUT_ANN, OUTPUT_PYTHON, OUTPUT_BINARY}
\* payloads: the class or track index data[0] of an annotation or binary
\* payload, an opaque value for the other kinds
Payloads == 0..1
\* physical channels of the stream source
NumPhys == 3

RECURSIVE SeqsUpTo(_, _)
SeqsUpTo(S, k) ==
    IF k = 0 THEN {<<>>}
    ELSE LET shorter == SeqsUpTo(S, k - 1)
         IN shorter \cup {Append(s, x) : s \in shorter, x \in S}

VARIABLES
    decoders,        \* argument: the ordered specification list
    cfg_type,        \* argument output_type
    cfg_filter,      \* argument output_filter
    samplerate,      \* input_.samplerate
    pc,              \* position in run_decoders
    idx,             \* index of the loop run_decoders is in
    all_decoders,    \* local all_decoders: instance ids in list order
    next_decoder,    \* local next_decoder
    output_type,     \* local output_type (reassigned in the build loop)
    output_filter,   \* local output_filter (reassigned in the build loop)
    attrs,           \* per instance: names of the attributes it owns
    callbacks,       \* per holder: kind -> set of (filter, callback)
    decoder_channel_to_data_channel, \* per holder: logical -> physical
    one_to_one,      \* per holder
    input,           \* per holder: TRUE when the stream source is attached
    input_callbacks, \* registrations made on the stream source
    samplenum,       \* input_.samplenum: samples yielded so far
    forwarded,       \* condition sequence last handed to input_.wait
    data,            \* tuple last returned by Decoder.wait
    stack,           \* call stack below run_decoders: decode and put frames
    log,             \* calls run_decoders made so far on decoders and sink, in order
    deliveries,      \* bag of the callback invocations made so far by put
    puts,            \* put calls made so far
    failure,         \* exception that left run_decoders, "" when none
    eof,             \* the stream source has signalled EndOfStream
    registered,      \* the calls of add_callback made so far, in order
    waited,          \* the last call of Decoder.wait: receiver and argument
    queried,         \* the last read of the samplenum or matched property
    matching         \* the last call of cond_matches: arguments and result

vars == << decoders, cfg_type, cfg_filter, samplerate, pc, idx, all_decoders,
           next_decoder, output_type, output_filter, attrs, callbacks,
           decoder_channel_to_data_channel, one_to_one, input, input_callbacks,
           samplenum, forwarded, data, stack, log, deliveries, puts, failure,
           eof, registered, waited, queried, matching >>

Instances == 1..MaxDecoders
Holders == Instances \cup {DecoderCls}

\* a call of wait(conds) on instance d; no call yet
Waited(d, conds) == [called |-> TRUE, d |-> d, conds |-> conds]
NotWaited == [called |-> FALSE, d |-> NoDecoder, conds |-> <<>>]

\* no read of samplenum or matched yet; no call of cond_matches yet
NotQueried == [d |-> NoDecoder, prop |-> "", result |-> ""]
NotMatching == [called |-> FALSE, cond |-> <<>>, last_sample |-> 0,
                current_sample |-> 0, matches |-> FALSE]

(* ------------------------- attribute lookup ---------------------------- *)
\* hasattr(self, a)
HasAttr(own, d, a) == a \in own[d] \/ a \in ClassAttrs

\* the object whose attribute `self.a` reads
Holder(own, d, a) == IF a \in own[d] THEN d ELSE DecoderCls

\* class of instance d: the cls of the d-th specification
ClassOf(d) == decoders[d].cls


\* the declared channels followed by the optional channels, None read as empty
AllChannels(cls) ==
    (IF "channels" \in Declares(cls) THEN channels(cls) ELSE <<>>)
    \o (IF "optional_channels" \in Declares(cls) THEN optional_channels(cls) ELSE <<>>)

\* d[k] = v on a dictionary kept as a function
DictSet(dict, k, v) == [x \in DOMAIN dict \cup {k} |-> IF x = k THEN v ELSE dict[x]]

Min(S) == CHOOSE x \in S : \A y \in S : x <= y

(* The mutable attributes of all objects, as one record:                   *)
(*   attrs, chan (decoder_channel_to_data_channel), oto (one_to_one),      *)
(*   cbs (callbacks), reg (the calls of add_callback so far).              *)
Heap == [attrs |-> attrs, chan |-> decoder_channel_to_data_channel,
         oto |-> one_to_one, cbs |-> callbacks, reg |-> registered]

(* --------------------------- Channel Remapper -------------------------- *)
\* Decoder.set_channelnum(channelname, channelnum) on instance d
set_channelnum(h, d, channelname, channelnum) ==
    LET h1 == IF ~HasAttr(h.attrs, d, "decoder_channel_to_data_channel")
              THEN [h EXCEPT !.attrs[d] = @ \cup {"decoder_channel_to_data_channel",
                                                    "one_to_one"},
                             !.chan[d] = <<>>,
                             !.oto[d] = TRUE]
              ELSE h
        names == AllChannels(ClassOf(d))
        hits == {i \in 1..Len(names) : names[i] = channelname}
    IN  IF hits = {} THEN h1
        ELSE LET i == Min(hits) - 1
                 mapHolder == Holder(h1.attrs, d, "decoder_channel_to_data_channel")
                 flag == h1.oto[Holder(h1.attrs, d, "one_to_one")]
             IN [h1 EXCEPT !.chan[mapHolder] = DictSet(@, i, channelnum),
                           !.attrs[d] = @ \cup {"one_to_one"},
                           !.oto[d] = flag /\ i = channelnum]

\* Decoder.has_channel(decoder_channel) on instance d
has_channel(d, decoder_channel) ==
    decoder_channel \in
        DOMAIN decoder_channel_to_data_channel[
                   Holder(attrs, d, "decoder_channel_to_data_channel")]

\* the calls of set_channelnum for the pin mapping of one decoder_info
RECURSIVE BindPins(_, _, _)
BindPins(h, d, pins) ==
    IF pins = <<>> THEN h
    ELSE BindPins(set_channelnum(h, d, pins[1][1], pins[1][2]), d, Tail(pins))

(* ---------------------------- Output Router ---------------------------- *)
(* A registry maps every output kind to its set of (filter, callback); a   *)
(* kind that is no key of the Python dictionary has the empty set, since   *)
(* add_callback creates a key only together with its first element.        *)
EmptyRegistry == [k \in OutputType |-> {}]

\* functools.partial(output.output, d): the sink's output closed over d
SinkCallback(d) == [tgt |-> "output", d |-> d]

\* the bound method d.decode
DecodeCallback(d) == [tgt |-> "decode", d |-> d]

\* one call of add_callback: the object it was called on, the kind and the
\* (filter, callback) pair
Registration(d, kind, filter, fun) ==
    [on |-> d, kind |-> kind, pair |-> [f |-> filter, cb |-> fun]]

\* Decoder.add_callback(output_type, output_filter, fun) on instance d
add_callback(h, d, kind, filter, fun) ==
    LET h1 == IF ~HasAttr(h.attrs, d, "callbacks")
              THEN [h EXCEPT !.attrs[d] = @ \cup {"callbacks"},
                             !.cbs[d] = EmptyRegistry]
              ELSE h
        regHolder == Holder(h1.attrs, d, "callbacks")
    IN  [h1 EXCEPT !.cbs[regHolder][kind] = @ \cup {[f |-> filter, cb |-> fun]},
                   !.reg = Append(@, Registration(d, kind, filter, fun))]

\* the (filter, callback) pairs put on instance d iterates over for a kind
CallbacksOf(d, kind) == callbacks[Holder(attrs, d, "callbacks")][kind]


(* -------------------------- run_decoders ------------------------------- *)
\* a call made on a decoder or on the sink.  d: the receiver (for "output"
\* the originating decoder handed to the sink); s, e, p: start, end and
\* payload (-1 when the call has none); put: the put call that made it (0
\* when run_decoders made it)
Call(op, d) == [op |-> op, d |-> d, s |-> 0 - 1, e |-> 0 - 1, p |-> 0 - 1, put |-> 0]

\* first_decoder without the fallback to the sink
first_decoder_NoFallback == IF all_decoders # <<>> THEN all_decoders[1] ELSE NoDecoder

\* first_decoder
first_decoder == IF all_decoders # <<>> THEN all_decoders[1] ELSE Sink

\* receivers of reset, in call order
ResetOrder == all_decoders \o <<Sink>>

\* receivers of start with the sink called after the decoders
StartOrderSinkLast == all_decoders \o <<Sink>>

\* receivers of start, in call order
StartOrder == <<Sink>> \o all_decoders

\* receivers of stop, in call order
StopOrder == all_decoders \o <<Sink>>

\* the phases with the run placed before the calls of start
NextPhaseRunFirst(phase) ==
    CASE phase = "build" -> "reset"
      [] phase = "reset" -> "metadata"
      [] phase = "metadata" -> "run"
      [] phase = "decode" -> "start"
      [] phase = "start" -> "stop"
      [] phase = "stop" -> "done"

\* the phases with the metadata call placed after the calls of start
NextPhaseMetadataAfterStart(phase) ==
    CASE phase = "build" -> "reset"
      [] phase = "reset" -> "start"
      [] phase = "start" -> "metadata"
      [] phase = "metadata" -> "run"
      [] phase = "decode" -> "stop"
      [] phase = "stop" -> "done"

\* the statement run_decoders goes to when a phase is over
NextPhase(phase) ==
    CASE phase = "build" -> "reset"
      [] phase = "reset" -> "metadata"
      [] phase = "metadata" -> "start"
      [] phase = "start" -> "run"
      [] phase = "decode" -> "stop"
      [] phase = "stop" -> "done"

\* the metadata delivered for every rate that is not negative
DeliversMetadataUnlessNegative(rate) == rate >= 0

\* whether the sample-rate metadata is delivered
DeliversMetadata(rate) == rate > 0

Init ==
    /\ decoders \in SeqsUpTo(DecoderInfos, MaxDecoders)
    /\ cfg_type \in Kinds
    /\ cfg_filter \in Filters
    /\ samplerate \in {0, 1}
    /\ pc = "begin"
    /\ idx = 0
    /\ all_decoders = <<>>
    /\ next_decoder = NoDecoder
    /\ output_type = cfg_type
    /\ output_filter = cfg_filter
    /\ attrs = [d \in Instances |-> {}]
    /\ callbacks = [o \in Holders |-> EmptyRegistry]
    /\ decoder_channel_to_data_channel = [o \in Holders |-> <<>>]
    /\ one_to_one = [o \in Holders |-> ClassOneToOne]
    /\ input = [o \in Holders |-> FALSE]
    /\ input_callbacks = EmptyRegistry
    /\ samplenum = 0
    /\ forwarded = <<>>
    /\ data = <<>>
    /\ stack = <<>>
    /\ log = <<>>
    /\ deliveries = EmptyBag
    /\ puts = <<>>
    /\ failure = ""
    /\ eof = FALSE
    /\ registered = <<>>
    /\ waited = NotWaited
    /\ queried = NotQueried
    /\ matching = NotMatching

\* lines 316-319: the stream source's own output goes to the sink
Begin ==
    /\ pc = "begin"
    /\ input_callbacks' = [input_callbacks EXCEPT ![OUTPUT_PYTHON] =
                               @ \cup {[f |-> NoFilter, cb |-> SinkCallback(Source)]}]
    /\ all_decoders' = <<>>
    /\ next_decoder' = NoDecoder
    /\ idx' = Len(decoders)
    /\ pc' = IF Len(decoders) = 0 THEN NextPhase("build") ELSE "build"
    /\ registered' = Append(registered, Registration(Source, OUTPUT_PYTHON, NoFilter,
                                                      SinkCallback(Source)))
    /\ UNCHANGED << queried, matching, waited, eof, deliveries, decoders, cfg_type, cfg_filter, samplerate, output_type,
                    output_filter, attrs, callbacks, decoder_channel_to_data_channel,
                    one_to_one, input, samplenum, forwarded, data, stack, log,
                    puts, failure >>

\* the build loop without the registration of the sink
WireChainOnly(h, d) ==
    IF next_decoder # NoDecoder
    THEN add_callback(h, d, output_type, output_filter, DecodeCallback(next_decoder))
    ELSE h

\* the callbacks one iteration of the build loop registers on decoder d
Wire(h, d) ==
    LET h1 == add_callback(h, d, output_type, output_filter, SinkCallback(d))
    IN  IF next_decoder # NoDecoder
        THEN add_callback(h1, d, output_type, output_filter, DecodeCallback(next_decoder))
        ELSE h1

\* one iteration of `for decoder_info in reversed(decoders)`
BuildDecoder ==
    /\ pc = "build"
    /\ LET d == idx
           h == Wire(BindPins([Heap EXCEPT !.attrs[d] = {"options"}], d,
                              decoders[d].pin_mapping), d)
       IN /\ attrs' = h.attrs
          /\ callbacks' = h.cbs
          /\ decoder_channel_to_data_channel' = h.chan
          /\ one_to_one' = h.oto
          /\ registered' = h.reg
          /\ all_decoders' = <<d>> \o all_decoders
          /\ next_decoder' = d
    /\ output_type' = OUTPUT_PYTHON
    /\ output_filter' = NoFilter
    /\ idx' = idx - 1
    /\ pc' = IF idx = 1 THEN NextPhase("build") ELSE "build"
    /\ UNCHANGED << queried, matching, waited, eof, deliveries, decoders, cfg_type, cfg_filter, samplerate, input,
                    input_callbacks, samplenum, forwarded, data, stack, log,
                    puts, failure >>

\* one call of a lifecycle loop: op on the receiver the loop has reached
LifecycleCall(phase, op, order) ==
    /\ pc = phase
    /\ log' = Append(log, Call(op, order[idx + 1]))
    /\ IF idx + 1 = Len(order)
       THEN pc' = NextPhase(phase) /\ idx' = 0
       ELSE pc' = pc /\ idx' = idx + 1
    /\ UNCHANGED << queried, matching, waited, registered, eof, deliveries, decoders, cfg_type, cfg_filter, samplerate, all_decoders,
                    next_decoder, output_type, output_filter, attrs, callbacks,
                    decoder_channel_to_data_channel, one_to_one, input,
                    input_callbacks, samplenum, forwarded, data, stack, puts,
                    failure >>

\* lines 343-345
ResetCall == LifecycleCall("reset", "reset", ResetOrder)

\* lines 347-348
Metadata ==
    /\ pc = "metadata"
    /\ log' = IF DeliversMetadata(samplerate)
              THEN Append(log, Call("metadata", first_decoder))
              ELSE log
    /\ pc' = NextPhase("metadata")
    /\ UNCHANGED << queried, matching, waited, registered, eof, deliveries, decoders, cfg_type, cfg_filter, samplerate, idx, all_decoders,
                    next_decoder, output_type, output_filter, attrs, callbacks,
                    decoder_channel_to_data_channel, one_to_one, input,
                    input_callbacks, samplenum, forwarded, data, stack, puts,
                    failure >>

\* lines 350-352
StartCall == LifecycleCall("start", "start", StartOrder)

\* lines 356-358
StopCall == LifecycleCall("stop", "stop", StopOrder)


(* ------------------------ Stream Cursor Facade ------------------------- *)
(* A condition is [skip, ch]: skip is the value under key "skip" (-1 when  *)
(* the key is absent), ch the (channel, symbol) entries in the             *)
(* dictionary's iteration order, each channel at most once.                *)
NoSkip == 0 - 1
\* the value None in a slot of a sample vector
Unmapped == 0 - 1

\* dict[k] = v on a dictionary kept as a sequence of (key, value) pairs
PairsSet(pairs, k, v) ==
    IF \E i \in 1..Len(pairs) : pairs[i][1] = k
    THEN [i \in 1..Len(pairs) |-> IF pairs[i][1] = k THEN <<k, v>> ELSE pairs[i]]
    ELSE Append(pairs, <<k, v>>)

\* the channel entries of data_cond for the channel entries ch of cond
RECURSIVE TranslateCh(_, _, _)
TranslateCh(ch, map, acc) ==
    IF ch = <<>> THEN acc
    ELSE TranslateCh(Tail(ch), map, PairsSet(acc, map[ch[1][1]], ch[1][2]))

\* data_cond for cond (lines 160-165)
TranslateCond(cond, map) == [skip |-> cond.skip, ch |-> TranslateCh(cond.ch, map, <<>>)]

\* data_conds for conds (lines 155-166)
DataConds(conds, oto, map) ==
    IF oto THEN conds
    ELSE [i \in 1..Len(conds) |-> TranslateCond(conds[i], map)]

\* the translation looks up a channel the table does not hold (line 165)
TranslationFails(conds, oto, map) ==
    /\ ~oto
    /\ \E i \in 1..Len(conds) : \E j \in 1..Len(conds[i].ch) :
           conds[i].ch[j][1] \notin DOMAIN map

\* the physical sample vector the stream source yields as its k-th sample
RawSample(k) == [c \in 0..(NumPhys - 1) |-> (k \div (c + 1)) % 2]

\* length of the vector wait returns (lines 169-171)
DataLen(cls) == Len(channels(cls)) + Len(optional_channels(cls))

\* the tuple wait returns (lines 169-176)
WaitData(cls, map, raw) ==
    [l \in 1..DataLen(cls) |-> IF (l - 1) \in DOMAIN map THEN raw[map[l - 1]] ELSE Unmapped]

\* the exception lines 169-174 raise, "" when none
WaitDataError(cls, map) ==
    IF "optional_channels" \notin Declares(cls) THEN "TypeError"
    ELSE IF \E l \in DOMAIN map : l >= DataLen(cls) \/ map[l] >= NumPhys
         THEN "IndexError"
         ELSE ""

\* condition sequences the first decoder may wait for
WaitConds == { <<>> }

(* ------------------------------ frames --------------------------------- *)
DecodeFrame(d, s, e, p) ==
    [t |-> "decode", d |-> d, kind |-> "", s |-> s, e |-> e, p |-> p, id |-> 0, todo |-> {}]

PutFrame(d, kind, s, e, p, id, todo) ==
    [t |-> "put", d |-> d, kind |-> kind, s |-> s, e |-> e, p |-> p, id |-> id, todo |-> todo]

Top == stack[Len(stack)]
Pop(st) == SubSeq(st, 1, Len(st) - 1)

\* an exception nothing catches leaves run_decoders; the puts on the call
\* stack end by raising
Raised(ps) == [i \in 1..Len(ps) |-> IF ps[i].done = "pending"
                                    THEN [ps[i] EXCEPT !.done = "raised"] ELSE ps[i]]

\* a run that catches nothing
CatchesNothing(exc) == FALSE

\* the exceptions the try statement of Decoder.run catches (lines 273-276)
Catches(exc) == exc = "EOFError"

\* lines 354, 271-274: first_decoder.run(input_)
Run ==
    /\ pc = "run"
    /\ IF first_decoder = Sink
       THEN /\ log' = Append(log, Call("run", Sink))
            /\ pc' = NextPhase("decode")
            /\ UNCHANGED << attrs, input, stack >>
       ELSE /\ attrs' = [attrs EXCEPT ![first_decoder] = @ \cup {"input"}]
            /\ input' = [input EXCEPT ![first_decoder] = TRUE]
            /\ log' = log \o << Call("run", first_decoder), Call("decode", first_decoder) >>
            /\ stack' = << DecodeFrame(first_decoder, 0 - 1, 0 - 1, 0 - 1) >>
            /\ pc' = "decode"
    /\ UNCHANGED << queried, matching, waited, registered, eof, deliveries, decoders, cfg_type, cfg_filter, samplerate, idx, all_decoders,
                    next_decoder, output_type, output_filter, callbacks,
                    decoder_channel_to_data_channel, one_to_one, input_callbacks,
                    samplenum, forwarded, data, puts, failure >>

\* Decoder.wait(conds) called by the running decode of the first decoder;
\* ends: the stream source signals EndOfStream instead of yielding a sample
Wait(conds, ends) ==
    /\ pc = "decode"
    /\ Len(stack) = 1
    /\ Top.t = "decode"
    /\ input[Holder(attrs, Top.d, "input")]
    /\ ends \/ samplenum < MaxSamples
    /\ LET d == Top.d
           oto == one_to_one[Holder(attrs, d, "one_to_one")]
           map == decoder_channel_to_data_channel[
                      Holder(attrs, d, "decoder_channel_to_data_channel")]
       IN  IF TranslationFails(conds, oto, map)
           THEN /\ failure' = "KeyError"
                /\ pc' = "failed"
                /\ stack' = <<>>
                /\ UNCHANGED << forwarded, samplenum, data, eof >>
           ELSE /\ forwarded' = DataConds(conds, oto, map)
                /\ IF ends
                   THEN /\ eof' = TRUE
                        /\ stack' = <<>>
                        /\ pc' = IF Catches("EOFError") THEN NextPhase("decode")
                                                        ELSE "failed"
                        /\ failure' = IF Catches("EOFError") THEN failure
                                                             ELSE "EOFError"
                        /\ UNCHANGED << samplenum, data >>
                   ELSE /\ samplenum' = samplenum + 1
                        /\ UNCHANGED eof
                        /\ IF WaitDataError(ClassOf(d), map) # ""
                           THEN /\ failure' = WaitDataError(ClassOf(d), map)
                                /\ pc' = "failed"
                                /\ stack' = <<>>
                                /\ UNCHANGED data
                           ELSE /\ data' = WaitData(ClassOf(d), map, RawSample(samplenum + 1))
                                /\ UNCHANGED << pc, stack, failure >>
    /\ waited' = Waited(Top.d, conds)
    /\ UNCHANGED << queried, matching, registered, deliveries, decoders, cfg_type, cfg_filter, samplerate, idx, all_decoders,
                    next_decoder, output_type, output_filter, attrs, callbacks,
                    decoder_channel_to_data_channel, one_to_one, input,
                    input_callbacks, log, puts >>

(* ------------------------------- put ----------------------------------- *)
\* the loop body of put without the branch for binary output
FilterOutcomeAnnOnly(cls, kind, f, p) ==
    IF f # NoFilter /\ kind = OUTPUT_ANN
    THEN IF "annotations" \notin Declares(cls) THEN "AssertionError"
         ELSE IF p + 1 > Len(annotations(cls)) THEN "IndexError"
         ELSE IF annotations(cls)[p + 1] # f THEN "continue"
         ELSE "call"
    ELSE "call"

\* what the loop body of put does with one (filter, callback) pair
\* (lines 185-198): "call", "continue" or the exception it raises
FilterOutcome(cls, kind, f, p) ==
    IF f # NoFilter /\ kind = OUTPUT_ANN
    THEN IF "annotations" \notin Declares(cls) THEN "AssertionError"
         ELSE IF p + 1 > Len(annotations(cls)) THEN "IndexError"
         ELSE IF annotations(cls)[p + 1] # f THEN "continue"
         ELSE "call"
    ELSE IF f # NoFilter /\ kind = OUTPUT_BINARY
    THEN IF "binary" \notin Declares(cls) THEN "AssertionError"
         ELSE IF p + 1 > Len(binary(cls)) THEN "IndexError"
         ELSE IF binary(cls)[p + 1] # f THEN "continue"
         ELSE "call"
    ELSE "call"

\* the call cb(startsample, endsample, data) made by the put numbered id
Invoke(cb, s, e, p, id) ==
    [op |-> cb.tgt, d |-> cb.d, s |-> s, e |-> e, p |-> p, put |-> id]

\* Decoder.put(startsample, endsample, output_id, data) called by the
\* decode on top of the stack (lines 178-183)
Put(kind, p) ==
    /\ pc = "decode"
    /\ stack # <<>>
    /\ Top.t = "decode"
    /\ Len(puts) < MaxPuts
    /\ LET d == Top.d
           s == samplenum
           e == samplenum + 1
           id == Len(puts) + 1
           rec == [d |-> d, kind |-> kind, s |-> s, e |-> e, p |-> p]
       IN  IF CallbacksOf(d, kind) = {}
           THEN /\ puts' = Append(puts, rec @@ [done |-> "returned"])
                /\ UNCHANGED stack
           ELSE /\ puts' = Append(puts, rec @@ [done |-> "pending"])
                /\ stack' = Append(stack, PutFrame(d, kind, s, e, p, id,
                                                   CallbacksOf(d, kind)))
    /\ UNCHANGED << queried, matching, waited, registered, eof, deliveries, decoders, cfg_type, cfg_filter, samplerate, pc, idx,
                    all_decoders, next_decoder, output_type, output_filter, attrs,
                    callbacks, decoder_channel_to_data_channel, one_to_one, input,
                    input_callbacks, samplenum, forwarded, data, log, failure >>

\* one iteration of `for output_filter, cb in self.callbacks[output_id]`
\* (lines 184-198); the iteration order of a set is unspecified
Dispatch ==
    /\ pc = "decode"
    /\ stack # <<>>
    /\ Top.t = "put"
    /\ \E c \in Top.todo :
         LET f == Top
             rest == [stack EXCEPT ![Len(stack)].todo = @ \ {c}]
             outcome == FilterOutcome(ClassOf(f.d), f.kind, c.f, f.p)
         IN  IF outcome = "continue"
             THEN /\ stack' = rest
                  /\ UNCHANGED << deliveries, puts, pc, failure >>
             ELSE IF outcome = "call"
             THEN /\ deliveries' = deliveries (+) SetToBag({Invoke(c.cb, f.s, f.e, f.p, f.id)})
                  /\ stack' = IF c.cb.tgt = "decode"
                              THEN Append(rest, DecodeFrame(c.cb.d, f.s, f.e, f.p))
                              ELSE rest
                  /\ UNCHANGED << puts, pc, failure >>
             ELSE /\ failure' = outcome
                  /\ pc' = "failed"
                  /\ stack' = <<>>
                  /\ puts' = Raised(puts)
                  /\ UNCHANGED deliveries
    /\ UNCHANGED << queried, matching, waited, registered, eof, log, decoders, cfg_type, cfg_filter, samplerate, idx, all_decoders,
                    next_decoder, output_type, output_filter, attrs, callbacks,
                    decoder_channel_to_data_channel, one_to_one, input,
                    input_callbacks, samplenum, forwarded, data >>

\* put returns once every pair has been visited
PutReturn ==
    /\ pc = "decode"
    /\ stack # <<>>
    /\ Top.t = "put"
    /\ Top.todo = {}
    /\ puts' = [puts EXCEPT ![Top.id].done = "returned"]
    /\ stack' = Pop(stack)
    /\ UNCHANGED << queried, matching, waited, registered, eof, deliveries, decoders, cfg_type, cfg_filter, samplerate, pc, idx,
                    all_decoders, next_decoder, output_type, output_filter, attrs,
                    callbacks, decoder_channel_to_data_channel, one_to_one, input,
                    input_callbacks, samplenum, forwarded, data, log, failure >>

\* a decode(startsample, endsample, data) invoked as a callback returns
DecodeReturn ==
    /\ pc = "decode"
    /\ Len(stack) > 1
    /\ Top.t = "decode"
    /\ stack' = Pop(stack)
    /\ UNCHANGED << queried, matching, waited, registered, eof, deliveries, decoders, cfg_type, cfg_filter, samplerate, pc, idx,
                    all_decoders, next_decoder, output_type, output_filter, attrs,
                    callbacks, decoder_channel_to_data_channel, one_to_one, input,
                    input_callbacks, samplenum, forwarded, data, log, puts,
                    failure >>

Next ==
    \/ Begin
    \/ BuildDecoder
    \/ ResetCall
    \/ Metadata
    \/ StartCall
    \/ Run
    \/ \E conds \in WaitConds, ends \in BOOLEAN : Wait(conds, ends)
    \/ \E kind \in Kinds, p \in Payloads : Put(kind, p)
    \/ Dispatch
    \/ PutReturn
    \/ DecodeReturn
    \/ StopCall

Spec == Init /\ [][Next]_vars


(* ===================== the Decoder interface, called directly =========== *)
(* A second specification: decoder instances are constructed and their     *)
(* methods set_channelnum, run (up to the first statement of decode), wait *)
(* and the samplenum and matched properties are called in any order the    *)
(* interface allows, with any arguments, as a caller other than            *)
(* run_decoders may do.                                                    *)

\* most decoder instances constructed
MaxInstances == 2

\* the decoder classes instantiated, with no pin mapping applied
FacadeInfos == {[cls |-> c, pin_mapping |-> <<>>] : c \in DecoderClasses}

\* the channel names set_channelnum may be given
ChannelNames == {"a", "b", "c", "x", "p", "q", "unknown"}

\* condition sequences a decoder may hand to wait
FacadeConds ==
    { <<>>,
      << [skip |-> NoSkip, ch |-> << <<0, "h">> >>] >>,
      << [skip |-> NoSkip, ch |-> << <<1, "r">> >>] >>,
      << [skip |-> 2, ch |-> <<>>] >>,
      << [skip |-> NoSkip, ch |-> << <<1, "l">>, <<0, "f">> >>],
         [skip |-> 1, ch |-> << <<0, "e">> >>] >> }

\* the properties of lines 223-233
Properties == {"samplenum", "matched"}

InitFacade ==
    /\ decoders \in SeqsUpTo(FacadeInfos, MaxInstances) \ {<<>>}
    /\ cfg_type = OUTPUT_ANN
    /\ cfg_filter = NoFilter
    /\ samplerate = 0
    /\ pc = "bind"
    /\ idx = 0
    /\ all_decoders = [i \in 1..Len(decoders) |-> i]
    /\ next_decoder = NoDecoder
    /\ output_type = cfg_type
    /\ output_filter = cfg_filter
    /\ attrs = [d \in Instances |-> {}]
    /\ callbacks = [o \in Holders |-> EmptyRegistry]
    /\ decoder_channel_to_data_channel = [o \in Holders |-> <<>>]
    /\ one_to_one = [o \in Holders |-> ClassOneToOne]
    /\ input = [o \in Holders |-> FALSE]
    /\ input_callbacks = EmptyRegistry
    /\ samplenum = 0
    /\ forwarded = <<>>
    /\ data = <<>>
    /\ stack = <<>>
    /\ log = <<>>
    /\ deliveries = EmptyBag
    /\ puts = <<>>
    /\ failure = ""
    /\ eof = FALSE
    /\ registered = <<>>
    /\ waited = NotWaited
    /\ queried = NotQueried
    /\ matching = NotMatching

\* a call of set_channelnum(channelname, channelnum) on instance d, before
\* any run
Bind(d, channelname, channelnum) ==
    /\ pc = "bind"
    /\ LET h == set_channelnum(Heap, d, channelname, channelnum)
       IN /\ attrs' = h.attrs
          /\ decoder_channel_to_data_channel' = h.chan
          /\ one_to_one' = h.oto
    /\ UNCHANGED << decoders, cfg_type, cfg_filter, samplerate, pc, idx, all_decoders,
                    next_decoder, output_type, output_filter, callbacks, input,
                    input_callbacks, samplenum, forwarded, data, stack, log,
                    deliveries, puts, failure, eof, registered, waited, queried,
                    matching >>

\* run(input_) on instance d, up to the entry of its decode (lines 271-274)
Attach(d) ==
    /\ pc = "bind"
    /\ attrs' = [attrs EXCEPT ![d] = @ \cup {"input"}]
    /\ input' = [input EXCEPT ![d] = TRUE]
    /\ stack' = << DecodeFrame(d, 0 - 1, 0 - 1, 0 - 1) >>
    /\ pc' = "decode"
    /\ UNCHANGED << decoders, cfg_type, cfg_filter, samplerate, idx, all_decoders,
                    next_decoder, output_type, output_filter, callbacks,
                    decoder_channel_to_data_channel, one_to_one, input_callbacks,
                    samplenum, forwarded, data, log, deliveries, puts, failure,
                    eof, registered, waited, queried, matching >>

\* the assertion failing also while no wait has been called
PropertyFailsUntilWait(attached) == ~attached \/ ~waited.called

\* whether the assertion of samplenum and matched fails (lines 226, 232);
\* attached: self.input is not None
PropertyFails(attached) == ~attached

\* a read of property prop on instance d: the assertion fails, or the value
\* the stream source holds is returned (lines 223-233)
Query(d, prop) ==
    /\ queried' = [d |-> d, prop |-> prop,
                   result |-> IF PropertyFails(input[Holder(attrs, d, "input")])
                              THEN "AssertionError" ELSE "returned"]
    /\ UNCHANGED << decoders, cfg_type, cfg_filter, samplerate, pc, idx, all_decoders,
                    next_decoder, output_type, output_filter, attrs, callbacks,
                    decoder_channel_to_data_channel, one_to_one, input,
                    input_callbacks, samplenum, forwarded, data, stack, log,
                    deliveries, puts, failure, eof, registered, waited, matching >>

NextFacade ==
    \/ \E d \in 1..Len(decoders), channelname \in ChannelNames,
          channelnum \in 0..(NumPhys - 1) : Bind(d, channelname, channelnum)
    \/ \E d \in 1..Len(decoders) : Attach(d)
    \/ \E conds \in FacadeConds, ends \in BOOLEAN : Wait(conds, ends)
    \/ \E d \in 1..Len(decoders), prop \in Properties : Query(d, prop)

SpecFacade == InitFacade /\ [][NextFacade]_vars


(* ============================ cond_matches ============================== *)
(* A third specification applies the function cond_matches to every        *)
(* condition, previous sample and current sample of a bounded set.  Here a *)
(* condition is the sequence of its (key, value) entries in the            *)
(* dictionary's iteration order; the key "skip" is written SkipKey.        *)

\* channels a condition of this specification may name
MaxChannels == 2
\* the key "skip" of a condition
SkipKey == 0 - 1
\* the trigger symbols
Symbols == {"l", "h", "r", "f", "e", "s"}

\* 1 << channel
Mask(channel) == 2 ^ channel

\* sample & mask for a mask of one bit
BitAnd(sample, mask) == ((sample \div mask) % 2) * mask

\* the test of lines 300-307 with the rule for "s" a copy of the rule for "e"
EntryFailsStableAsEdge(state, last_value, value) ==
    \/ state = "l" /\ value # 0
    \/ state = "h" /\ value = 0
    \/ state = "r" /\ ~(last_value = 0 /\ value # 0)
    \/ state = "f" /\ ~(last_value # 0 /\ value = 0)
    \/ state = "e" /\ last_value = value
    \/ state = "s" /\ last_value = value

\* the test of lines 300-307: the entry with symbol state is not satisfied
EntryFails(state, last_value, value) ==
    \/ state = "l" /\ value # 0
    \/ state = "h" /\ value = 0
    \/ state = "r" /\ ~(last_value = 0 /\ value # 0)
    \/ state = "f" /\ ~(last_value # 0 /\ value = 0)
    \/ state = "e" /\ last_value = value
    \/ state = "s" /\ last_value # value

\* cond_matches(cond, last_sample, current_sample), lines 291-310
RECURSIVE cond_matches(_, _, _)
cond_matches(cond, last_sample, current_sample) ==
    IF cond = <<>> THEN TRUE
    ELSE LET channel == cond[1][1]
         IN  IF channel = SkipKey THEN cond[1][2] = 0
             ELSE LET state == cond[1][2]
                      mask == Mask(channel)
                      last_value == BitAnd(last_sample, mask)
                      value == BitAnd(current_sample, mask)
                  IN  IF EntryFails(state, last_value, value) THEN FALSE
                      ELSE cond_matches(Tail(cond), last_sample, current_sample)

\* the entries a condition may hold
CondEntries ==
    {<<c, y>> : c \in 0..(MaxChannels - 1), y \in Symbols}
    \cup {<<SkipKey, n>> : n \in 0..1}

\* the conditions: up to two entries, a key at most once
Conds ==
    {<<>>} \cup {<<x>> : x \in CondEntries}
    \cup {c \in CondEntries \X CondEntries : c[1][1] # c[2][1]}

\* the sample bit-vectors
Samples == 0..(2 ^ MaxChannels - 1)

InitMatch ==
    /\ decoders = <<>>
    /\ cfg_type = OUTPUT_ANN
    /\ cfg_filter = NoFilter
    /\ samplerate = 0
    /\ pc = "match"
    /\ idx = 0
    /\ all_decoders = <<>>
    /\ next_decoder = NoDecoder
    /\ output_type = cfg_type
    /\ output_filter = cfg_filter
    /\ attrs = [d \in Instances |-> {}]
    /\ callbacks = [o \in Holders |-> EmptyRegistry]
    /\ decoder_channel_to_data_channel = [o \in Holders |-> <<>>]
    /\ one_to_one = [o \in Holders |-> ClassOneToOne]
    /\ input = [o \in Holders |-> FALSE]
    /\ input_callbacks = EmptyRegistry
    /\ samplenum = 0
    /\ forwarded = <<>>
    /\ data = <<>>
    /\ stack = <<>>
    /\ log = <<>>
    /\ deliveries = EmptyBag
    /\ puts = <<>>
    /\ failure = ""
    /\ eof = FALSE
    /\ registered = <<>>
    /\ waited = NotWaited
    /\ queried = NotQueried
    /\ matching \in {[called |-> FALSE, cond |-> c, last_sample |-> l,
                      current_sample |-> s, matches |-> FALSE] :
                         c \in Conds, l \in Samples, s \in Samples}

\* the call cond_matches(cond, last_sample, current_sample)
Match ==
    /\ pc = "match"
    /\ ~matching.called
    /\ matching' = [matching EXCEPT
                        !.called = TRUE,
                        !.matches = cond_matches(matching.cond, matching.last_sample,
                                                 matching.current_sample)]
    /\ UNCHANGED << decoders, cfg_type, cfg_filter, samplerate, pc, idx, all_decoders,
                    next_decoder, output_type, output_filter, attrs, callbacks,
                    decoder_channel_to_data_channel, one_to_one, input,
                    input_callbacks, samplenum, forwarded, data, stack, log,
                    deliveries, puts, failure, eof, registered, waited, queried >>

NextMatch == Match

SpecMatch == InitMatch /\ [][NextMatch]_vars


(* ======================== properties of the pipeline ==================== *)
Range(f) == {f[i] : i \in DOMAIN f}

\* the callback invocations made by the put numbered k
DeliveriesOf(k) == {ev \in BagToSet(deliveries) : ev.put = k}

\* the invocation of op on (or, for "output", on behalf of) d that carries
\* the arguments of the put numbered k
DeliveryOf(k, op, d) ==
    [op |-> op, d |-> d, s |-> puts[k].s, e |-> puts[k].e, p |-> puts[k].p, put |-> k]

\* the puts that returned to their caller
Returned == {k \in 1..Len(puts) : puts[k].done = "returned"}

\* C1: in a pipeline of two or more decoders, a put of the chained kind
\* (OUTPUT_PYTHON) by a decoder that is not the last invokes the decode of
\* the next decoder exactly once, with the put's (start, end, payload), and
\* the decode of no other decoder.
C1_ChainedPutFeedsOnlyNext ==
    \A k \in Returned :
        (/\ Len(decoders) >= 2
         /\ puts[k].kind = OUTPUT_PYTHON
         /\ puts[k].d < Len(decoders))
        => /\ CopiesIn(DeliveryOf(k, "decode", puts[k].d + 1), deliveries) = 1
           /\ \A ev \in DeliveriesOf(k) :
                  ev.op = "decode" => ev = DeliveryOf(k, "decode", puts[k].d + 1)

\* the payload passes the filter for the kind: no filter, a kind filters do
\* not apply to, or the name of the annotation class or binary track the
\* payload indexes is the filter
PassesFilter(cls, kind, filter, p) ==
    \/ filter = NoFilter
    \/ kind \notin {OUTPUT_ANN, OUTPUT_BINARY}
    \/ /\ kind = OUTPUT_ANN
       /\ "annotations" \in Declares(cls)
       /\ p + 1 <= Len(annotations(cls))
       /\ annotations(cls)[p + 1] = filter
    \/ /\ kind = OUTPUT_BINARY
       /\ "binary" \in Declares(cls)
       /\ p + 1 <= Len(binary(cls))
       /\ binary(cls)[p + 1] = filter

\* C2: a put of the configured primary kind whose payload passes the
\* configured filter, by a decoder at any position of the pipeline, calls
\* the sink's output with the put's (start, end, payload) before it ends.
C2_PrimaryKindReachesSink ==
    \A k \in 1..Len(puts) :
        (/\ puts[k].done # "pending"
         /\ puts[k].kind = cfg_type
         /\ PassesFilter(ClassOf(puts[k].d), cfg_type, cfg_filter, puts[k].p))
        => \E d \in Range(all_decoders) :
               CopiesIn(DeliveryOf(k, "output", d), deliveries) >= 1

\* a non-last decoder of a pipeline has put the primary kind, with a filter
\* configured that its payload passes, and the put has returned
C2_Witness ==
    \E k \in Returned :
        /\ puts[k].kind = cfg_type
        /\ cfg_type = OUTPUT_ANN
        /\ cfg_filter # NoFilter
        /\ puts[k].d < Len(decoders)
        /\ PassesFilter(ClassOf(puts[k].d), cfg_type, cfg_filter, puts[k].p)

\* C3: every call of the sink's output that a put causes names the decoder
\* the put was called on as originating decoder.
C3_SinkSeesThePutter ==
    \A ev \in BagToSet(deliveries) :
        ev.op = "output" => ev.d = puts[ev.put].d

\* what has_channel and wait see of the Remap Table of instance e, and the
\* callbacks put on e invokes
BindingsSeen(e) ==
    decoder_channel_to_data_channel[Holder(attrs, e, "decoder_channel_to_data_channel")]
CallbacksSeen(e) == [k \in OutputType |-> CallbacksOf(e, k)]

\* C4: set_channelnum and add_callback on one decoder instance change neither
\* the bindings nor the callbacks of any other instance.  (The only calls of
\* the two are those of the build loop, on the instance it has just made.)
C4_InstancesOwnTheirTables ==
    [][\A e \in Range(all_decoders) :
           /\ BindingsSeen(e)' = BindingsSeen(e)
           /\ CallbacksSeen(e)' = CallbacksSeen(e)]_vars


(* ------------------------------ lifecycle ------------------------------ *)
\* positions in the log of the calls of op
Idx(op) == {i \in 1..Len(log) : log[i].op = op}

\* the receivers of the calls of op, in call order
RECURSIVE ReceiversIn(_, _)
ReceiversIn(l, op) ==
    IF l = <<>> THEN <<>>
    ELSE (IF l[1].op = op THEN <<l[1].d>> ELSE <<>>) \o ReceiversIn(Tail(l), op)
Receivers(op) == ReceiversIn(log, op)

IsPrefix(a, b) == Len(a) <= Len(b) /\ a = SubSeq(b, 1, Len(a))

\* the decoders of the pipeline in specification-list order
ListOrder == [i \in 1..Len(decoders) |-> i]
\* every decoder of the pipeline and the sink
Everyone == (1..Len(decoders)) \cup {Sink}
\* the first decoder of the pipeline: the sink when the list is empty
FirstOfPipeline == IF Len(decoders) >= 1 THEN 1 ELSE Sink
\* run_decoders has called run on the first decoder
Decoding == Idx("run") # {}

\* C5: every reset call, on all decoders and on the sink, is made before any
\* start call, and every start call, on all decoders and on the sink, before
\* the decode of the first decoder is entered.
C5_ResetsThenStartsThenDecode ==
    /\ \A j \in Idx("start") :
           {log[i].d : i \in {i \in Idx("reset") : i < j}} = Everyone
    /\ \A j \in Idx("run") \cup Idx("decode") :
           {log[i].d : i \in {i \in Idx("start") : i < j}} = Everyone
    /\ \A i \in Idx("reset") : \A j \in Idx("start") \cup Idx("run") : i < j
    /\ \A i \in Idx("start") : \A j \in Idx("run") \cup Idx("decode") : i < j
    /\ (stack # <<>> \/ deliveries # EmptyBag \/ puts # <<>>) => Decoding

\* the first of three decoders is decoding and has put
C5_Witness == pc = "decode" /\ Len(decoders) = 3 /\ puts # <<>>

\* C6 as claimed: in the reset phase and in the start phase alike, the sink
\* is called after every decoder.
C6_SinkLastInBothPhases ==
    \A op \in {"reset", "start"} :
        \A i \in Idx(op) : \A j \in Idx(op) :
            (log[i].d = Sink /\ log[j].d # Sink) => j < i

\* C6 as amended: reset is called on every decoder in list order and then on
\* the sink; start is called on the sink first and then on every decoder in
\* list order.
C6_SinkLastInResetFirstInStart ==
    /\ IsPrefix(Receivers("reset"), ListOrder \o <<Sink>>)
    /\ IsPrefix(Receivers("start"), <<Sink>> \o ListOrder)
    /\ Decoding => /\ Receivers("reset") = ListOrder \o <<Sink>>
                   /\ Receivers("start") = <<Sink>> \o ListOrder

\* both startup phases of a pipeline of two or more decoders are over
C6_Witness == pc = "run" /\ Len(decoders) >= 2

\* C7: when the decode loop of the first decoder ends by EndOfStream,
\* run_decoders does not fail, and stop is then called exactly once on each
\* decoder, in list order, and then once on the sink.
C7_EndOfStreamThenStops ==
    /\ eof => (failure = "" /\ pc \in {"stop", "done"})
    /\ IsPrefix(Receivers("stop"), ListOrder \o <<Sink>>)
    /\ pc = "done" => Receivers("stop") = ListOrder \o <<Sink>>
    /\ Idx("stop") # {} => (pc \in {"stop", "done"} /\ (Len(decoders) >= 1 => eof))
    /\ \A i \in Idx("stop") : \A j \in Idx("run") \cup Idx("decode") : j < i

\* a pipeline of two or more decoders that has put is done after EndOfStream
C7_Witness == pc = "done" /\ eof /\ Len(decoders) >= 2 /\ puts # <<>>

\* C8: the sample-rate metadata is delivered by run_decoders exactly once, to
\* the first decoder only and before its run starts, when the rate is
\* positive, and never when it is not.
C8_SampleRateMetadata ==
    /\ samplerate <= 0 => Idx("metadata") = {}
    /\ Cardinality(Idx("metadata")) <= 1
    /\ \A i \in Idx("metadata") :
           /\ log[i].d = FirstOfPipeline
           /\ \A j \in Idx("run") \cup Idx("decode") : i < j
    /\ (samplerate > 0 /\ Decoding) => Cardinality(Idx("metadata")) = 1

\* a pipeline of two or more decoders fed by a source of positive rate runs
C8_Witness == samplerate > 0 /\ Len(decoders) >= 2 /\ pc = "decode"

\* the calls run_decoders makes when the specification list is empty
EmptyPipelineCalls ==
    << Call("reset", Sink) >>
    \o (IF samplerate > 0 THEN << Call("metadata", Sink) >> ELSE <<>>)
    \o << Call("start", Sink), Call("run", Sink), Call("stop", Sink) >>

\* C9: with an empty specification list the sink is the first decoder: it
\* receives the metadata (positive rate) and its run is driven, and its
\* reset, start and stop are each called once, in that order, the run
\* between start and stop.
C9_EmptyPipeline ==
    Len(decoders) = 0 =>
        /\ IsPrefix(log, EmptyPipelineCalls)
        /\ pc = "done" => log = EmptyPipelineCalls
        /\ pc # "failed"

\* the run of an empty pipeline fed by a source of positive rate is done
C9_Witness == Len(decoders) = 0 /\ samplerate > 0 /\ pc = "done"


(* ------------------------------ filtering ------------------------------ *)
\* the (filter, callback) pairs registered for the kind of the put numbered k
\* on the decoder that made it
RegisteredFor(k) == CallbacksOf(puts[k].d, puts[k].kind)

\* how often the put numbered k has invoked the callback of pair c with the
\* put's (start, end, payload)
Invocations(k, c) == CopiesIn(DeliveryOf(k, c.cb.tgt, c.cb.d), deliveries)

\* the name of the annotation row the annotation class p belongs to
RowNameOf(cls, p) ==
    LET rows == annotation_rows(cls)
    IN  rows[CHOOSE i \in 1..Len(rows) : p \in rows[i].classes].name

\* C10 as claimed: a callback registered with a filter f is invoked by a put
\* of kind annotation exactly when the row name declared for the annotation
\* class the payload indexes is f (for kind binary: the name of the track
\* the payload indexes); a callback with no filter, and any callback of
\* another kind, is invoked; each exactly once with the put's arguments.
C10_RowNameFilter ==
    \A k \in Returned : \A c \in RegisteredFor(k) :
        LET cls == ClassOf(puts[k].d)
            n == Invocations(k, c)
        IN  /\ n <= 1
            /\ IF c.f = NoFilter \/ puts[k].kind \notin {OUTPUT_ANN, OUTPUT_BINARY}
               THEN n = 1
               ELSE IF puts[k].kind = OUTPUT_ANN
               THEN "annotation_rows" \in Declares(cls)
                    => (n = 1 <=> RowNameOf(cls, puts[k].p) = c.f)
               ELSE "binary" \in Declares(cls)
                    => (n = 1 <=> binary(cls)[puts[k].p + 1] = c.f)

\* C10 as amended: the name compared with the filter of a put of kind
\* annotation is the id of the annotation class the payload indexes
\* (element [0] of its entry in annotations), not a row name.  Of a put that
\* returns, the callbacks invoked, each exactly once and with the put's
\* (start, end, payload), are those with no filter, those of a kind other
\* than annotation and binary, and those whose filter is that id (for
\* binary: the id of the track); no put invokes a callback whose filter
\* differs from it, and every invocation is of a registered callback.
C10_ClassIdFilter ==
    \A k \in 1..Len(puts) :
        /\ \A c \in RegisteredFor(k) :
               LET passes == PassesFilter(ClassOf(puts[k].d), puts[k].kind, c.f, puts[k].p)
                   n == Invocations(k, c)
               IN  /\ n <= 1
                   /\ ~passes => n = 0
                   /\ (k \in Returned /\ passes) => n = 1
        /\ \A ev \in DeliveriesOf(k) :
               \E c \in RegisteredFor(k) : ev = DeliveryOf(k, c.cb.tgt, c.cb.d)

\* one put of kind annotation has returned after invoking a callback whose
\* filter is the id of its annotation class, and one after skipping a
\* callback whose filter is another name
C10_Witness ==
    \E k1 \in Returned : \E k2 \in Returned :
        /\ puts[k1].kind = OUTPUT_ANN
        /\ puts[k2].kind = OUTPUT_ANN
        /\ \E c \in RegisteredFor(k1) :
               /\ c.f # NoFilter
               /\ annotations(ClassOf(puts[k1].d))[puts[k1].p + 1] = c.f
               /\ Invocations(k1, c) = 1
        /\ \E c \in RegisteredFor(k2) :
               /\ c.f # NoFilter
               /\ "annotations" \in Declares(ClassOf(puts[k2].d))
               /\ annotations(ClassOf(puts[k2].d))[puts[k2].p + 1] # c.f
               /\ Invocations(k2, c) = 0


(* ------------------------------ dispatch ------------------------------- *)
\* the position, among the calls of add_callback so far, of the first one
\* that registered callback cb for kind
RegistrationRank(kind, cb) ==
    Min({i \in 1..Len(registered) :
             registered[i].kind = kind /\ registered[i].pair.cb = cb})

\* the callbacks the put of frame f has invoked so far
InvokedBy(f) == {[tgt |-> ev.op, d |-> ev.d] : ev \in DeliveriesOf(f.id)}

\* C11: put invokes the matching callbacks registered for a kind in the order
\* in which add_callback registered them: while a put is under way, every
\* matching callback it has still to invoke was registered after each of
\* those it has invoked; and a put that has returned has invoked every
\* matching callback, once.
C11_DispatchInRegistrationOrder ==
    /\ \A i \in 1..Len(stack) :
           stack[i].t = "put" =>
               \A c \in stack[i].todo : \A done \in InvokedBy(stack[i]) :
                   FilterOutcome(ClassOf(stack[i].d), stack[i].kind, c.f, stack[i].p) = "call"
                   => RegistrationRank(stack[i].kind, done)
                          < RegistrationRank(stack[i].kind, c.cb)
    /\ \A k \in Returned : \A c \in RegisteredFor(k) :
           PassesFilter(ClassOf(puts[k].d), puts[k].kind, c.f, puts[k].p)
           => Invocations(k, c) = 1


(* ------------------- properties of the Decoder interface ---------------- *)
\* the number of optional channels of a class, 0 when it declares none
NumOptional(cls) ==
    IF "optional_channels" \in Declares(cls) THEN Len(optional_channels(cls)) ELSE 0

\* C12: a wait to which the stream source yields a sample succeeds, on a
\* decoder with c declared channels and o optional channels (o = 0 when it
\* declares none) alike, and returns a vector of length c + o in which slot l
\* is the physical vector's value at the index bound to l when l is bound
\* and 'unmapped' when it is not.
C12_WaitVector ==
    samplenum >= 1 =>
        LET d == waited.d
            n == Len(channels(ClassOf(d))) + NumOptional(ClassOf(d))
            map == BindingsSeen(d)
            raw == RawSample(samplenum)
        IN  /\ failure = ""
            /\ Len(data) = n
            /\ \A l \in 0..(n - 1) :
                   data[l + 1] = IF l \in DOMAIN map THEN raw[map[l]] ELSE Unmapped

\* set_channelnum has bound a channel of instance d
HasBound(d) == "one_to_one" \in attrs[d]

\* every entry of the Remap Table instance d reads maps a logical index to
\* the equal physical index
AllIdentity(d) == \A l \in DOMAIN BindingsSeen(d) : BindingsSeen(d)[l] = l

\* C13: when a decoder all of whose bindings map a logical index to the equal
\* physical index calls wait, the condition sequence handed to the stream
\* source is the sequence the decoder supplied, whatever channels and skip
\* entries its conditions name.
C13_OneToOneForwardsUnchanged ==
    (waited.called /\ HasBound(waited.d) /\ AllIdentity(waited.d))
    => /\ failure # "KeyError"
       /\ forwarded = waited.conds


(* --------------------------- output contract --------------------------- *)
\* C14: a put of kind annotation by a decoder that declares no annotation
\* classes, with at least one callback (filtered or not) registered for the
\* annotation kind, ends with a decoder-contract error and invokes no
\* callback.
C14_UndeclaredAnnotationPutFails ==
    \A k \in 1..Len(puts) :
        (/\ puts[k].kind = OUTPUT_ANN
         /\ "annotations" \notin Declares(ClassOf(puts[k].d))
         /\ RegisteredFor(k) # {})
        => /\ puts[k].done # "returned"
           /\ puts[k].done = "raised" => failure = "AssertionError"
           /\ DeliveriesOf(k) = {}


(* ------------------------- samplenum and matched ------------------------ *)
\* a stream source is attached to instance d: self.input is not None
SourceAttached(d) == input[Holder(attrs, d, "input")]

\* wait has been called on instance d
WaitCalledOn(d) == waited.called /\ waited.d = d

\* C15 as claimed: a read of samplenum or matched on an instance on which no
\* wait call has been made fails with a precondition error, also when run has
\* attached the stream source already.
C15_PropertiesFailBeforeWait ==
    [][(queried' # queried /\ ~WaitCalledOn(queried'.d))
       => queried'.result = "AssertionError"]_vars

\* C15 as amended: a read of samplenum or matched fails with a precondition
\* error exactly when no stream source is attached to the instance (run has
\* not been called on it); once run has attached the source the read returns
\* without error, before the first wait call as well as after it.
C15_PropertiesFailUntilAttached ==
    [][queried' # queried
       => (queried'.result = "AssertionError" <=> ~SourceAttached(queried'.d))]_vars

\* a property was read, and returned, on the instance run attached the
\* stream source to, before any wait call
C15_Witness ==
    /\ queried.result = "returned"
    /\ ~waited.called
    /\ pc = "decode"
    /\ SourceAttached(queried.d)


(* ------------------------- unconsumed output --------------------------- *)
\* the kinds for which add_callback was called on instance d
KindsRegisteredOn(d) ==
    {registered[i].kind : i \in {j \in 1..Len(registered) : registered[j].on = d}}

\* C16: a put for a kind for which no callback was registered on the decoder
\* instance it is called on invokes no callback and raises no error, for
\* every kind and payload.
C16_UnregisteredKindIsNoOp ==
    \A k \in 1..Len(puts) :
        puts[k].kind \notin KindsRegisteredOn(puts[k].d)
        => /\ DeliveriesOf(k) = {}
           /\ puts[k].done # "raised"


(* ------------------------------ conditions ------------------------------ *)
\* bit c of a sample
Bit(sample, c) == (sample \div (2 ^ c)) % 2

\* the rule of a trigger symbol for the previous and the current bit
Satisfies(symbol, last, cur) ==
    CASE symbol = "l" -> cur = 0
      [] symbol = "h" -> cur = 1
      [] symbol = "r" -> last = 0 /\ cur = 1
      [] symbol = "f" -> last = 1 /\ cur = 0
      [] symbol = "e" -> last # cur
      [] symbol = "s" -> last = cur

\* the condition names channels only
ChannelsOnly(cond) == \A i \in 1..Len(cond) : cond[i][1] # SkipKey

\* the result of cond_matches for the one entry (c, symbol)
MatchesAlone(c, symbol, last_sample, current_sample) ==
    cond_matches(<< <<c, symbol>> >>, last_sample, current_sample)

\* C17: for a condition made only of (channel, symbol) entries, cond_matches
\* returns true exactly when every entry satisfies the rule of its symbol on
\* the channel's previous and current bit; hence the empty condition
\* matches, rising and falling exclude each other, any-edge matches exactly
\* when rising or falling does, and stable exactly when any-edge does not.
C17_CondMatches ==
    (matching.called /\ ChannelsOnly(matching.cond)) =>
        LET cond == matching.cond
            last == matching.last_sample
            cur == matching.current_sample
        IN  /\ matching.matches
                <=> \A i \in 1..Len(cond) :
                        Satisfies(cond[i][2], Bit(last, cond[i][1]), Bit(cur, cond[i][1]))
            /\ cond = <<>> => matching.matches
            /\ \A c \in 0..(MaxChannels - 1) :
                   /\ ~(MatchesAlone(c, "r", last, cur) /\ MatchesAlone(c, "f", last, cur))
                   /\ MatchesAlone(c, "e", last, cur)
                          <=> (MatchesAlone(c, "r", last, cur) \/ MatchesAlone(c, "f", last, cur))
                   /\ MatchesAlone(c, "s", last, cur) <=> ~MatchesAlone(c, "e", last, cur)

\* cond_matches has returned true for a condition of two channel entries,
\* one of them an edge
C17_Witness ==
    /\ matching.called
    /\ matching.matches
    /\ Len(matching.cond) = 2
    /\ ChannelsOnly(matching.cond)
    /\ \E i \in 1..2 : matching.cond[i][2] \in {"r", "f", "e"}


(* --------------------------- one-to-one flag ---------------------------- *)
\* the value self.one_to_one reads on instance d
OneToOne(d) == one_to_one[Holder(attrs, d, "one_to_one")]

\* C18: after any sequence of set_channelnum calls that bound a channel of a
\* decoder instance, rebinding included, the one_to_one flag of the instance
\* is true exactly when every entry of its Remap Table maps a logical index
\* to the equal physical index.
C18_OneToOneIffIdentity ==
    \A d \in 1..Len(decoders) :
        HasBound(d) => (OneToOne(d) <=> AllIdentity(d))


(* ------------------------------ recursion ------------------------------- *)
\* positions of the decode invocations on the call stack that the put at
\* position i of the stack has caused and that have not returned
DecodesUnder(i) == {j \in (i + 1)..Len(stack) : stack[j].t = "decode"}

\* C19: while a put is under way, the decode invocations it has caused and
\* that are still on the call stack are at most n, the number of decoders of
\* the pipeline, and no two of them are invocations of the same decoder's
\* decode; and when run_decoders is done every put has returned.
C19_BoundedNesting ==
    /\ \A i \in 1..Len(stack) :
           stack[i].t = "put" =>
               /\ Cardinality(DecodesUnder(i)) <= Len(decoders)
               /\ \A j \in DecodesUnder(i) : \A k \in DecodesUnder(i) :
                      stack[j].d = stack[k].d => j = k
    /\ pc = "done" => \A k \in 1..Len(puts) : puts[k].done = "returned"


(* ------------------------- metadata in the startup ---------------------- *)
\* C20: when the stream source reports a positive sample rate, the metadata
\* call on the first decoder is made after the reset call on every decoder
\* and on the sink and before any start call, on the sink or on a decoder.
C20_MetadataBetweenResetAndStart ==
    /\ \A i \in Idx("metadata") :
           /\ {log[j].d : j \in {j \in Idx("reset") : j < i}} = Everyone
           /\ \A j \in Idx("reset") : j < i
           /\ \A j \in Idx("start") : i < j
    /\ (samplerate > 0 /\ Idx("start") # {}) => Idx("metadata") # {}

\* fed by a source of positive rate, run_decoders has called start on the
\* sink and on the first of two or more decoders
C20_Witness ==
    /\ samplerate > 0
    /\ Len(decoders) >= 2
    /\ pc = "start"
    /\ Cardinality(Idx("start")) = 2

====
